---- MODULE Spec2Model ----
(***************************************************************************)
(* Model of src/src/data/preprocessing.py: the telemetry pipeline that     *)
(* parses CPU/GPU capture files, aligns them in time, collects the runs    *)
(* of every (environment, architecture) group, aggregates each run and     *)
(* joins the summaries with the tracked experiment outcomes.               *)
(*                                                                         *)
(* Text is a sequence of one-character strings, compared by character      *)
(* code as Python compares str.  Time is counted in ticks, TicksPerSecond  *)
(* ticks to the second.  A nullable value is <<>> (null) or <<v>>.         *)
(***************************************************************************)
EXTENDS Integers, Sequences, FiniteSets, TLC

VARIABLES
    pc,             \* position of the running function
    raw,            \* Sensor Parser: raw text of one GPU field
    field,          \* Sensor Parser: the GPU column the text belongs to
    parsed,         \* Sensor Parser: outcome of the column's converter
    gpu_file,       \* timestamps of the sample lines of one GPU capture file
    gpu_data,       \* the GPU frame after read_csv and sort_values
    cpu_file,       \* sample lines of one CPU capture file
    cpu_data,       \* the CPU frame after read_csv and sort_values
    df,             \* the merged frame of one run
    listing,        \* input_dir: the CPU and GPU file names of every group
    visited,        \* the groups processed so far, in os.listdir order
    dataframes,     \* build_metrics_dataset: the frames collected so far
    dataset,        \* build_metrics_dataset: the frame returned
    error,          \* the exception that ended the function, if any
    table,          \* build_analysis_dataset: the merged-telemetry table read
    tracked,        \* what mlflow.search_runs returns for every experiment
    df_grouped,     \* the Run Summary table of _aggregate_metrics
    mlflow_df,      \* the Experiment Outcome table of _get_mlflow_metrics
    analysis_df     \* build_analysis_dataset: the frame returned

vars ==
    <<pc, raw, field, parsed, gpu_file, gpu_data, cpu_file, cpu_data, df,
      listing, visited, dataframes, dataset, error,
      table, tracked, df_grouped, mlflow_df, analysis_df>>

parserVars == <<raw, field, parsed>>
readVars == <<gpu_file, gpu_data>>
mergeVars == <<cpu_file, cpu_data, df>>
collectVars == <<listing, visited, dataframes, dataset>>
analysisVars == <<table, tracked, df_grouped, mlflow_df, analysis_df>>

ParserIdle == raw = <<>> /\ field = "gpu_usage" /\ parsed = [tag |-> "null", num |-> 0, den |-> 1]
ReaderIdle == gpu_file = <<>> /\ gpu_data = <<>>
AlignIdle == cpu_file = <<>> /\ cpu_data = <<>> /\ df = <<>>
CollectIdle ==
    /\ listing = <<>> /\ visited = <<>> /\ dataframes = <<>> /\ dataset = <<>>
AnalysisIdle ==
    /\ table = <<>> /\ tracked = <<>> /\ df_grouped = <<>>
    /\ mlflow_df = <<>> /\ analysis_df = <<>>

----------------------------------------------------------------------------
(* Bounds of the model *)

MaxRawLen == 3          \* longest raw field text
MaxGpuRows == 8         \* most sample lines in an enumerated GPU file
MaxTime == 2            \* largest timestamp of an enumerated GPU file line
TicksPerSecond == 2     \* resolution of the time axis
Horizon == 4            \* largest timestamp, in ticks, of an aligned sample
MaxCpuRows == 2         \* most sample lines in an enumerated CPU file
MaxAlignedGpuRows == 2  \* most untrimmed lines in a GPU file to align
MaxTableRows == 2       \* most rows of an enumerated merged-telemetry table
MaxRun == 1             \* largest run index of an enumerated table row
MaxTracked == 2         \* most tracked runs of one experiment
PrecisionSteps == 2     \* precision and recall are multiples of 1/PrecisionSteps

----------------------------------------------------------------------------
(* Text *)

Ord ==
    (" " :> 32) @@ ("%" :> 37) @@ ("-" :> 45) @@ ("." :> 46) @@
    ("0" :> 48) @@ ("1" :> 49) @@ ("2" :> 50) @@ ("3" :> 51) @@ ("4" :> 52) @@
    ("5" :> 53) @@ ("6" :> 54) @@ ("7" :> 55) @@ ("8" :> 56) @@ ("9" :> 57) @@
    ("N" :> 78) @@ ("W" :> 87) @@ ("a" :> 97) @@ ("c" :> 99) @@ ("d" :> 100) @@
    ("e" :> 101) @@ ("g" :> 103) @@ ("l" :> 108) @@ ("n" :> 110) @@
    ("o" :> 111) @@ ("p" :> 112) @@ ("s" :> 115) @@ ("u" :> 117) @@
    ("v" :> 118)

Digits == {"0", "1", "2", "3", "4", "5", "6", "7", "8", "9"}

DigitValue(c) == Ord[c] - 48

RECURSIVE StrToInt(_)
StrToInt(s) ==
    IF s = <<>> THEN 0
    ELSE 10 * StrToInt(SubSeq(s, 1, Len(s) - 1)) + DigitValue(s[Len(s)])

\* Python's str ordering: the first differing character decides, a proper
\* prefix sorts first.
RECURSIVE StrLess(_, _)
StrLess(s, t) ==
    IF t = <<>> THEN FALSE
    ELSE IF s = <<>> THEN TRUE
    ELSE IF Ord[Head(s)] # Ord[Head(t)] THEN Ord[Head(s)] < Ord[Head(t)]
    ELSE StrLess(Tail(s), Tail(t))

NoneText == <<"N", "o", "n", "e">>

----------------------------------------------------------------------------
(* Sensor Parser: the converters of the GPU columns *)

NULL == <<>>
Some(v) == <<v>>

Null == [tag |-> "null", num |-> 0, den |-> 1]
Number(n, d) == [tag |-> "number", num |-> n, den |-> d]
Raises(e) == [tag |-> e, num |-> 0, den |-> 1]

\* re.findall(r"\d+", value): the maximal digit runs, left to right.
RECURSIVE FindAllDigits(_)
FindAllDigits(value) ==
    IF value = <<>> THEN <<>>
    ELSE IF Head(value) \notin Digits THEN FindAllDigits(Tail(value))
    ELSE LET ends == {k \in 1..Len(value) :
                        /\ \A j \in 1..k : value[j] \in Digits
                        /\ (k = Len(value) \/ value[k + 1] \notin Digits)}
             k == CHOOSE e \in ends : TRUE
         IN  <<SubSeq(value, 1, k)>> \o FindAllDigits(SubSeq(value, k + 1, Len(value)))

metric2float(value) ==
    IF value = NoneText \/ value = <<>> THEN Null
    ELSE LET runs == FindAllDigits(value)
         IN  IF runs = <<>> THEN Raises("IndexError")
             ELSE Number(StrToInt(runs[1]), 1)

metric2int(value) ==
    IF value = NoneText \/ value = <<>> THEN Null
    ELSE LET runs == FindAllDigits(value)
         IN  IF runs = <<>> THEN Raises("IndexError")
             ELSE Number(StrToInt(runs[1]), 1)

\* x / 100 in Python: dividing None raises TypeError, an exception raised by
\* the operand propagates.
DivideBy100(x) ==
    IF x.tag = "null" THEN Raises("TypeError")
    ELSE IF x.tag = "number" THEN Number(x.num, x.den * 100)
    ELSE x

GpuNumericFields ==
    {"gpu_usage", "gpu_memory_usage", "gpu_total_memory", "gpu_memory_used",
     "gpu_power_draw", "gpu_max_power"}

\* the converters= argument of read_csv
Converter(f, value) ==
    CASE f = "gpu_usage" -> DivideBy100(metric2float(value))
      [] f = "gpu_memory_usage" -> DivideBy100(metric2float(value))
      [] f = "gpu_total_memory" -> metric2int(value)
      [] f = "gpu_memory_used" -> metric2int(value)
      [] f = "gpu_power_draw" -> metric2float(value)
      [] f = "gpu_max_power" -> metric2float(value)

RawChars == {"1", "0", "%", " "}

RECURSIVE TextsUpTo(_, _)
TextsUpTo(chars, n) ==
    IF n = 0 THEN {<<>>}
    ELSE LET shorter == TextsUpTo(chars, n - 1)
         IN  shorter \cup {Append(s, c) : s \in shorter, c \in chars}

RawValues == TextsUpTo(RawChars, MaxRawLen) \cup {NoneText}

InitParser ==
    /\ pc = "convert"
    /\ raw \in RawValues
    /\ field \in GpuNumericFields
    /\ parsed = Null
    /\ error = "none"
    /\ ReaderIdle /\ AlignIdle /\ CollectIdle /\ AnalysisIdle

ConvertField ==
    /\ pc = "convert"
    /\ parsed' = Converter(field, raw)
    /\ pc' = "converted"
    /\ UNCHANGED <<raw, field, error, readVars, mergeVars, collectVars, analysisVars>>

NextParser == ConvertField

SpecParser == InitParser /\ [][NextParser]_vars

FirstDigitRunValues(value) ==
    {StrToInt(SubSeq(value, i, j)) : <<i, j>> \in
        {p \in (1..Len(value)) \X (1..Len(value)) :
            /\ p[1] <= p[2]
            /\ \A k \in 1..(p[1] - 1) : value[k] \notin Digits
            /\ \A k \in p[1]..p[2] : value[k] \in Digits
            /\ (p[2] = Len(value) \/ value[p[2] + 1] \notin Digits)}}

\* C4: for every numeric GPU field, the text "None" and the empty text parse
\* to null without an error, and any other text parses to the number formed by
\* its first maximal run of digits (the two percentage columns carry it as a
\* fraction of 100).
C4_NoneIsNullElseFirstDigits ==
    pc = "converted" =>
        IF raw = NoneText \/ raw = <<>>
        THEN parsed = Null
        ELSE /\ parsed.tag = "number"
             /\ parsed.num \in FirstDigitRunValues(raw)

----------------------------------------------------------------------------
(* Sensor Parser: reading one GPU capture file *)

\* The lines of a capture file: the column header, then one line per sample.
\* row is the sample's position in the file, counted from 1.
FileLines(samples) ==
    <<[row |-> 0, timestamp |-> 0]>> \o
    [i \in 1..Len(samples) |-> [row |-> i, timestamp |-> samples[i]]]

DropFirst(s, n) == SubSeq(s, n + 1, Len(s))
DropLast(s, n) == SubSeq(s, 1, Len(s) - n)

\* list.insert keeping the frame ordered by timestamp; a row goes after the
\* rows of equal timestamp.
RECURSIVE InsertByTimestamp(_, _)
InsertByTimestamp(sorted, r) ==
    IF sorted = <<>> THEN <<r>>
    ELSE IF r.timestamp < Head(sorted).timestamp THEN <<r>> \o sorted
    ELSE <<Head(sorted)>> \o InsertByTimestamp(Tail(sorted), r)

RECURSIVE SortByTimestamp(_)
SortByTimestamp(frame) ==
    IF frame = <<>> THEN <<>>
    ELSE InsertByTimestamp(SortByTimestamp(DropLast(frame, 1)), frame[Len(frame)])

SkipRows == 3
SkipFooter == 3

\* the same read with skiprows=2
ReadGpuCsv_SkipTwo(samples) ==
    DropLast(DropFirst(DropFirst(FileLines(samples), 2), 1), SkipFooter)

\* read_csv(gpu_files[i], header=0, names=..., skiprows=3, skipfooter=3):
\* skiprows drops the first 3 lines of the file, header=0 then consumes the
\* next line as the header that names= replaces, skipfooter drops the last 3.
ReadGpuCsv(samples) ==
    DropLast(DropFirst(DropFirst(FileLines(samples), SkipRows), 1), SkipFooter)

\* DataFrame.sort_values(by="timestamp"); rows of equal timestamp keep the
\* order they had
SortValues(frame) == SortByTimestamp(frame)

GpuFiles ==
    UNION {[1..n -> 0..MaxTime] : n \in 0..MaxGpuRows}

InitReadGpu ==
    /\ pc = "read_gpu"
    /\ gpu_file \in GpuFiles
    /\ gpu_data = <<>>
    /\ error = "none"
    /\ ParserIdle /\ AlignIdle /\ CollectIdle /\ AnalysisIdle

ReadGpu ==
    /\ pc = "read_gpu"
    /\ gpu_data' = SortValues(ReadGpuCsv(gpu_file))
    /\ pc' = "gpu_read"
    /\ UNCHANGED <<gpu_file, error, parserVars, mergeVars, collectVars, analysisVars>>

NextReadGpu == ReadGpu

SpecReadGpu == InitReadGpu /\ [][NextReadGpu]_vars

\* C5: the parsed GPU sequence is ascending by timestamp whatever the order
\* of the lines in the file, and holds no sample from the first 3 or the last
\* 3 sample positions of the file.
C5_SortedAndTrimmed ==
    pc = "gpu_read" =>
        /\ \A i \in 1..(Len(gpu_data) - 1) :
              gpu_data[i].timestamp <= gpu_data[i + 1].timestamp
        /\ \A i \in 1..Len(gpu_data) :
              /\ gpu_data[i].row > 3
              /\ gpu_data[i].row <= Len(gpu_file) - 3

\* a file whose lines are out of time order and whose middle rows survive
C5_Witness ==
    /\ pc = "gpu_read"
    /\ Len(gpu_file) = 8
    /\ gpu_file[4] > gpu_file[5]
    /\ Len(gpu_data) = 2
    /\ gpu_data[1].row = 5 /\ gpu_data[2].row = 4

----------------------------------------------------------------------------
(* Temporal Aligner: one run's CPU file read, then merged onto its GPU frame *)

\* read_csv(cpu_files[i], header=0, names=..., na_values="None"), then
\* drop(columns=["cpu_temperature"]): header=0 consumes the first line, every
\* sample line becomes a row, a reading written as None becomes null.
ReadCpuCsv(samples) ==
    [i \in 1..Len(samples) |->
        [timestamp |-> samples[i].timestamp,
         cpu_usage |-> samples[i].cpu_usage,
         memory_usage |-> samples[i].memory_usage]]

\* tol = pd.Timedelta("1 second")
Tolerance == 1 * TicksPerSecond

SetMax(S) == CHOOSE x \in S : \A y \in S : y <= x
SetMin(S) == CHOOSE x \in S : \A y \in S : x <= y

\* asof_join_backward: the last right row at or before t, 0 if there is none
\* or it lies further than the tolerance
BackwardIndex(right, t, tol) ==
    LET at == {j \in 1..Len(right) : right[j].timestamp <= t}
    IN  IF at = {} THEN 0
        ELSE IF t - right[SetMax(at)].timestamp > tol THEN 0
        ELSE SetMax(at)

\* asof_join_forward: the first right row at or after t, 0 if there is none
\* or it lies further than the tolerance
ForwardIndex(right, t, tol) ==
    LET at == {j \in 1..Len(right) : right[j].timestamp >= t}
    IN  IF at = {} THEN 0
        ELSE IF right[SetMin(at)].timestamp - t > tol THEN 0
        ELSE SetMin(at)

\* nearest with the forward candidate taken when both are equally far
NearestIndex_PreferLater(right, t, tol) ==
    LET b == BackwardIndex(right, t, tol)
        f == ForwardIndex(right, t, tol)
    IN  IF b # 0 /\ f # 0
        THEN IF t - right[b].timestamp < right[f].timestamp - t THEN b ELSE f
        ELSE IF b # 0 THEN b ELSE f

\* nearest with the tolerance left out
NearestIndex_NoTolerance(right, t, tol) ==
    LET b == BackwardIndex(right, t, Horizon)
        f == ForwardIndex(right, t, Horizon)
    IN  IF b # 0 /\ f # 0
        THEN IF t - right[b].timestamp <= right[f].timestamp - t THEN b ELSE f
        ELSE IF b # 0 THEN b ELSE f

\* asof_join_nearest: of the backward and the forward candidate the closer
\* one, the backward one when they are equally far
NearestIndex(right, t, tol) ==
    LET b == BackwardIndex(right, t, tol)
        f == ForwardIndex(right, t, tol)
    IN  IF b # 0 /\ f # 0
        THEN IF t - right[b].timestamp <= right[f].timestamp - t THEN b ELSE f
        ELSE IF b # 0 THEN b ELSE f

\* pd.merge_asof(left, right, on="timestamp", direction="nearest",
\* tolerance=tol): a left join, one row per left row, the right columns null
\* where no right row is matched
MergeAsof(left, right, tol) ==
    [i \in 1..Len(left) |->
        LET j == NearestIndex(right, left[i].timestamp, tol)
        IN  [row |-> left[i].row,
             timestamp |-> left[i].timestamp,
             cpu_usage |-> IF j = 0 THEN NULL ELSE right[j].cpu_usage,
             memory_usage |-> IF j = 0 THEN NULL ELSE right[j].memory_usage]]

\* A CPU sample line.  A present reading carries the number of its line, so
\* that the lines of a file can be told apart in the merged frame.
CpuLine(n, t, present) ==
    [timestamp |-> t,
     cpu_usage |-> IF present THEN Some(n) ELSE NULL,
     memory_usage |-> IF present THEN Some(100 + n) ELSE NULL]

CpuFiles ==
    UNION {{[i \in 1..n |-> CpuLine(i, ts[i], pr[i])] :
                ts \in [1..n -> 0..Horizon], pr \in [1..n -> BOOLEAN]} :
           n \in 0..MaxCpuRows}

\* GPU files to align: the lines that the trim removes surround the others
AlignedGpuFiles ==
    UNION {{<<0, 0, 0>> \o mid \o <<Horizon, Horizon, Horizon>> :
                mid \in [1..n -> 0..Horizon]} : n \in 0..MaxAlignedGpuRows}

InitAlign ==
    /\ pc = "read_cpu"
    /\ cpu_file \in CpuFiles
    /\ gpu_file \in AlignedGpuFiles
    /\ cpu_data = <<>> /\ gpu_data = <<>> /\ df = <<>>
    /\ error = "none"
    /\ ParserIdle /\ CollectIdle /\ AnalysisIdle

ReadCpu ==
    /\ pc = "read_cpu"
    /\ cpu_data' = SortValues(ReadCpuCsv(cpu_file))
    /\ pc' = "read_gpu"
    /\ UNCHANGED <<cpu_file, df, error, parserVars, readVars, collectVars, analysisVars>>

Merge ==
    /\ pc = "gpu_read"
    /\ df' = MergeAsof(gpu_data, cpu_data, Tolerance)
    /\ pc' = "merged"
    /\ UNCHANGED <<cpu_file, cpu_data, error, parserVars, readVars, collectVars, analysisVars>>

NextAlign == ReadCpu \/ ReadGpu \/ Merge

SpecAlign == InitAlign /\ [][NextAlign]_vars

Distance(a, b) == IF a < b THEN b - a ELSE a - b

CpuWithin(t) == {j \in 1..Len(cpu_file) : Distance(cpu_file[j].timestamp, t) <= Tolerance}

Readings(r) == <<r.cpu_usage, r.memory_usage>>

OneRowPerGpuSample ==
    /\ Len(df) = Len(gpu_data)
    /\ \A i \in 1..Len(df) :
          df[i].row = gpu_data[i].row /\ df[i].timestamp = gpu_data[i].timestamp
    /\ Len(df) = Len(gpu_file) - 6

ExactMatchAttached ==
    \A i \in 1..Len(df) :
        (\E j \in 1..Len(cpu_file) : cpu_file[j].timestamp = df[i].timestamp)
            => \E j \in 1..Len(cpu_file) :
                  /\ cpu_file[j].timestamp = df[i].timestamp
                  /\ Readings(df[i]) = Readings(cpu_file[j])

\* C1 as stated: one merged row per GPU sample; the CPU fields of a row are
\* null if and only if no CPU sample lies within 1 second of it; a CPU sample
\* at exactly the GPU timestamp is the one attached.
C1_NullIffNoSampleWithinTolerance ==
    pc = "merged" =>
        /\ OneRowPerGpuSample
        /\ \A i \in 1..Len(df) :
              (df[i].cpu_usage = NULL /\ df[i].memory_usage = NULL)
                  <=> CpuWithin(df[i].timestamp) = {}
        /\ ExactMatchAttached

\* C1 as amended: one merged row per GPU sample; with no CPU sample within
\* 1 second of a row its CPU fields are null, and otherwise they are the
\* readings of a CPU sample nearest to it, which are null when that sample's
\* readings were recorded as None; a CPU sample at exactly the GPU timestamp
\* is the one attached.
C1_NearestWithinToleranceAttached ==
    pc = "merged" =>
        /\ OneRowPerGpuSample
        /\ \A i \in 1..Len(df) :
              IF CpuWithin(df[i].timestamp) = {}
              THEN df[i].cpu_usage = NULL /\ df[i].memory_usage = NULL
              ELSE \E j \in CpuWithin(df[i].timestamp) :
                      /\ Readings(df[i]) = Readings(cpu_file[j])
                      /\ \A k \in 1..Len(cpu_file) :
                            Distance(cpu_file[j].timestamp, df[i].timestamp)
                                <= Distance(cpu_file[k].timestamp, df[i].timestamp)
        /\ ExactMatchAttached

\* two GPU samples, one with a CPU sample exactly 1 second away that is
\* attached, one with the only CPU sample out of reach and null fields
C1_Witness ==
    /\ pc = "merged"
    /\ Len(df) = 2
    /\ Len(cpu_file) = 1
    /\ cpu_file[1].cpu_usage # NULL
    /\ Distance(cpu_file[1].timestamp, df[1].timestamp) = Tolerance
    /\ df[1].cpu_usage = cpu_file[1].cpu_usage
    /\ Distance(cpu_file[1].timestamp, df[2].timestamp) > Tolerance
    /\ df[2].cpu_usage = NULL

EquidistantPairs(t) ==
    {p \in CpuWithin(t) \X CpuWithin(t) :
        /\ cpu_file[p[1]].timestamp < t
        /\ cpu_file[p[2]].timestamp > t
        /\ t - cpu_file[p[1]].timestamp = cpu_file[p[2]].timestamp - t
        /\ \A k \in 1..Len(cpu_file) :
              Distance(cpu_file[k].timestamp, t) >= t - cpu_file[p[1]].timestamp}

\* C9: when a GPU timestamp has an earlier and a later CPU sample at exactly
\* equal distance, both within the tolerance and no sample closer, the merged
\* row carries the readings of an earlier one.
C9_TiePrefersEarlier ==
    pc = "merged" =>
        \A i \in 1..Len(df) :
            EquidistantPairs(df[i].timestamp) # {} =>
                \E p \in EquidistantPairs(df[i].timestamp) :
                    Readings(df[i]) = Readings(cpu_file[p[1]])

\* the later sample comes first in the file and is still not the one attached
C9_Witness ==
    /\ pc = "merged"
    /\ Len(df) >= 1
    /\ Len(cpu_file) = 2
    /\ cpu_file[1].timestamp = df[1].timestamp + Tolerance
    /\ cpu_file[2].timestamp = df[1].timestamp - Tolerance
    /\ cpu_file[1].cpu_usage # NULL /\ cpu_file[2].cpu_usage # NULL
    /\ df[1].cpu_usage = cpu_file[2].cpu_usage

----------------------------------------------------------------------------
(* Run Collector: build_metrics_dataset over a directory of capture files *)

Local == <<"l", "o", "c", "a", "l">>
Cloud == <<"c", "l", "o", "u", "d">>
Vgg == <<"v", "g", "g">>
Dense == <<"d", "e", "n", "s", "e">>

\* the architecture folders found under the environment folders
Groups ==
    {[env |-> Cloud, arch |-> Vgg],
     [env |-> Local, arch |-> Dense],
     [env |-> Local, arch |-> Vgg]}

\* the sequence numbers a capture file name may end in
SeqNumbers == {2, 10}

RECURSIVE Decimal(_)
Decimal(n) ==
    LET d == CHOOSE c \in Digits : DigitValue(c) = n % 10
    IN  IF n < 10 THEN <<d>> ELSE Append(Decimal(n \div 10), d)

CsvExt == <<".", "c", "s", "v">>
CpuName(n) == <<"c", "p", "u", "-">> \o Decimal(n) \o CsvExt
GpuName(n) == <<"g", "p", "u", "-">> \o Decimal(n) \o CsvExt

\* the sequence number written in a file name
FileNumber(name) == StrToInt(FindAllDigits(name)[1])

\* What the files hold.  Capture n was taken from second n on: its GPU file
\* holds, between the lines that the trim removes, three samples written out
\* of order, two of them with the same timestamp; its CPU file holds one
\* sample, with n as its reading.
GpuContent(name) ==
    LET t == FileNumber(name) * TicksPerSecond
    IN  <<0, 0, 0, t + 1, t, t, Horizon, Horizon, Horizon>>

CpuContent(name) ==
    LET n == FileNumber(name)
    IN  <<CpuLine(n, n * TicksPerSecond, TRUE)>>

\* os.path.basename(x).split("-")[-1]: the text after the last "-"
RECURSIVE SplitLast(_)
SplitLast(name) ==
    IF \A k \in 1..Len(name) : name[k] # "-" THEN name
    ELSE SplitLast(Tail(name))

\* key=lambda x: os.path.basename(x).split("-")[-1]
SortKey(name) == SplitLast(name)

\* sorted(files, key=...): ascending by key, compared as Python compares str
RECURSIVE Sorted(_)
Sorted(files) ==
    IF files = {} THEN <<>>
    ELSE LET first == CHOOSE f \in files :
                        \A g \in files \ {f} : StrLess(SortKey(f), SortKey(g))
         IN  <<first>> \o Sorted(files \ {first})

\* lines 73-129 for run i of a group: read both files, merge, tag the rows
RunFrame(g, cpu_name, gpu_name, i) ==
    LET cpu == SortValues(ReadCpuCsv(CpuContent(cpu_name)))
        gpu == SortValues(ReadGpuCsv(GpuContent(gpu_name)))
        merged == MergeAsof(gpu, cpu, Tolerance)
    IN  [k \in 1..Len(merged) |->
            [train_environment |-> g.env,
             architecture |-> g.arch,
             run |-> i,
             row |-> merged[k].row,
             timestamp |-> merged[k].timestamp,
             cpu_usage |-> merged[k].cpu_usage,
             memory_usage |-> merged[k].memory_usage]]

\* for i in range(0, len(cpu_files)): the frames of the runs that have a GPU
\* file at their index
GroupFrames(g) ==
    LET cpu_files == Sorted(listing[g].cpu)
        gpu_files == Sorted(listing[g].gpu)
        n == IF Len(cpu_files) <= Len(gpu_files) THEN Len(cpu_files) ELSE Len(gpu_files)
    IN  [k \in 1..n |-> RunFrame(g, cpu_files[k], gpu_files[k], k - 1)]

\* gpu_files[i] with i past the end of the list
IndexOutOfRange(g) == Cardinality(listing[g].cpu) > Cardinality(listing[g].gpu)

RECURSIVE Concat(_)
Concat(frames) ==
    IF frames = <<>> THEN <<>> ELSE Head(frames) \o Concat(Tail(frames))

\* the ordering of by=["train_environment", "architecture", "run", "timestamp"]
KeyLess(a, b) ==
    IF a.train_environment # b.train_environment
    THEN StrLess(a.train_environment, b.train_environment)
    ELSE IF a.architecture # b.architecture
    THEN StrLess(a.architecture, b.architecture)
    ELSE IF a.run # b.run THEN a.run < b.run
    ELSE a.timestamp < b.timestamp

RECURSIVE InsertByKey(_, _)
InsertByKey(sorted, r) ==
    IF sorted = <<>> THEN <<r>>
    ELSE IF KeyLess(r, Head(sorted)) THEN <<r>> \o sorted
    ELSE <<Head(sorted)>> \o InsertByKey(Tail(sorted), r)

\* the concatenated frame returned as collected, line 131 left out
SortDataset_Unsorted(frame) == frame

\* df.sort_values(by=[...]) of line 131
RECURSIVE SortDataset(_)
SortDataset(frame) ==
    IF frame = <<>> THEN <<>>
    ELSE InsertByKey(SortDataset(DropLast(frame, 1)), frame[Len(frame)])

Visited == {visited[k] : k \in 1..Len(visited)}

Listings ==
    [Groups -> [cpu : {{CpuName(n) : n \in N} : N \in SUBSET SeqNumbers},
                gpu : {{GpuName(n) : n \in N} : N \in SUBSET SeqNumbers}]]

InitCollect ==
    /\ pc = "collect"
    /\ listing \in Listings
    /\ visited = <<>>
    /\ dataframes = <<>>
    /\ dataset = <<>>
    /\ error = "none"
    /\ ParserIdle /\ ReaderIdle /\ AlignIdle /\ AnalysisIdle

\* os.listdir names the folders in arbitrary order; the architectures of one
\* environment are all visited before the next environment is entered
MayVisit(g) ==
    /\ g \in Groups \ Visited
    /\ visited # <<>> =>
          LET last == visited[Len(visited)]
          IN  (\E h \in Groups \ Visited : h.env = last.env) => g.env = last.env

\* one pass of the loop over the architectures (lines 67-129) that ends normally
ProcessGroup(g) ==
    /\ pc = "collect"
    /\ MayVisit(g)
    /\ ~IndexOutOfRange(g)
    /\ dataframes' = dataframes \o GroupFrames(g)
    /\ visited' = Append(visited, g)
    /\ UNCHANGED <<pc, listing, dataset, error, parserVars, readVars, mergeVars, analysisVars>>

\* one pass that runs out of GPU files: gpu_files[i] raises IndexError
ProcessGroupRaises(g) ==
    /\ pc = "collect"
    /\ MayVisit(g)
    /\ IndexOutOfRange(g)
    /\ dataframes' = dataframes \o GroupFrames(g)
    /\ visited' = Append(visited, g)
    /\ error' = "IndexError"
    /\ pc' = "raised"
    /\ UNCHANGED <<listing, dataset, parserVars, readVars, mergeVars, analysisVars>>

\* lines 130-137 with at least one frame collected
Finish ==
    /\ pc = "collect"
    /\ Visited = Groups
    /\ dataframes # <<>>
    /\ dataset' = SortDataset(Concat(dataframes))
    /\ pc' = "done"
    /\ UNCHANGED <<listing, visited, dataframes, error, parserVars, readVars, mergeVars, analysisVars>>

\* pd.concat of an empty list raises ValueError
FinishRaises ==
    /\ pc = "collect"
    /\ Visited = Groups
    /\ dataframes = <<>>
    /\ error' = "ValueError"
    /\ pc' = "raised"
    /\ UNCHANGED <<listing, visited, dataframes, dataset, parserVars, readVars, mergeVars, analysisVars>>

NextCollect ==
    \/ \E g \in Groups : ProcessGroup(g)
    \/ \E g \in Groups : ProcessGroupRaises(g)
    \/ Finish
    \/ FinishRaises

SpecCollect == InitCollect /\ [][NextCollect]_vars

FileNumbers(files) == {FileNumber(f) : f \in files}

\* the k-th smallest number of a set, k counted from 0
NthSmallest(S, k) == CHOOSE x \in S : Cardinality({y \in S : y < x}) = k

RowsOf(g, i) ==
    LET at == {k \in 1..Len(dataset) :
                  /\ dataset[k].train_environment = g.env
                  /\ dataset[k].architecture = g.arch
                  /\ dataset[k].run = i}
    IN  {dataset[k] : k \in at}

RunsOf(g) ==
    {dataset[k].run : k \in {j \in 1..Len(dataset) :
        dataset[j].train_environment = g.env /\ dataset[j].architecture = g.arch}}

FrameRows(frame) == {frame[k] : k \in 1..Len(frame)}

CountMismatch(g) == Cardinality(listing[g].cpu) # Cardinality(listing[g].gpu)

\* C2: a group whose CPU and GPU file counts differ, either way, makes the
\* function fail with an explicit count-mismatch error; it never returns a
\* dataset that truncates the group or leaves it out.
C2_CountMismatchFailsExplicitly ==
    /\ pc = "done" => \A g \in Groups : ~CountMismatch(g)
    /\ (pc = "raised" /\ CountMismatch(visited[Len(visited)]))
          => error = "CountMismatch"

\* C3: within a group the files are ordered by the numeric value of the
\* suffix of their names, so run i is the file pair with the i-th smallest
\* sequence number, and the run indices of the group are exactly 0..n-1.
C3_RunIndexFollowsNumericSuffix ==
    pc = "done" =>
        \A g \in Groups :
            ~CountMismatch(g) =>
                LET n == Cardinality(listing[g].cpu)
                IN  /\ RunsOf(g) = 0..(n - 1)
                    /\ \A i \in 0..(n - 1) :
                          RowsOf(g, i) = FrameRows(RunFrame(g,
                              CpuName(NthSmallest(FileNumbers(listing[g].cpu), i)),
                              GpuName(NthSmallest(FileNumbers(listing[g].gpu), i)),
                              i))

GroupLess(g, h) ==
    IF g.env # h.env THEN StrLess(g.env, h.env) ELSE StrLess(g.arch, h.arch)

GroupsAscending ==
    CHOOSE s \in [1..Cardinality(Groups) -> Groups] :
        \A i, j \in 1..Cardinality(Groups) : i < j => GroupLess(s[i], s[j])

\* the frames of every group, the groups taken in ascending order
FramesInKeyOrder ==
    Concat([k \in 1..Cardinality(Groups) |-> Concat(GroupFrames(GroupsAscending[k]))])

RowBefore(a, b) ==
    \/ StrLess(a.train_environment, b.train_environment)
    \/ /\ a.train_environment = b.train_environment
       /\ \/ StrLess(a.architecture, b.architecture)
          \/ /\ a.architecture = b.architecture
             /\ \/ a.run < b.run
                \/ a.run = b.run /\ a.timestamp < b.timestamp

\* C6: the dataset returned is sorted lexicographically by (train_environment,
\* architecture, run, timestamp): no row sorts before a row ahead of it, and
\* the rows are the runs' frames, each in time order, laid out in ascending
\* group and run order, whatever order the folders were visited in.
C6_SortedWhateverOrder ==
    pc = "done" =>
        /\ \A i, j \in 1..Len(dataset) : i < j => ~RowBefore(dataset[j], dataset[i])
        /\ dataset = FramesInKeyOrder

\* the folders were visited in descending order and two groups have two runs
C6_Witness ==
    /\ pc = "done"
    /\ visited = <<GroupsAscending[3], GroupsAscending[2], GroupsAscending[1]>>
    /\ \A g \in Groups : Cardinality(listing[g].cpu) = 2 /\ Cardinality(listing[g].gpu) = 2
    /\ Len(dataset) = 18

----------------------------------------------------------------------------
(* Metrics Aggregator, Experiment Metrics Resolver and Analysis Joiner:      *)
(* build_analysis_dataset                                                    *)

NaN == [tag |-> "nan", num |-> 0, den |-> 1]
Inf == [tag |-> "inf", num |-> 0, den |-> 1]

\* IEEE arithmetic on non-negative values: NaN propagates, 0/0 is NaN, x/0 is
\* infinite
FloatAdd(x, y) ==
    IF x.tag # "number" \/ y.tag # "number" THEN NaN
    ELSE Number(x.num * y.den + y.num * x.den, x.den * y.den)

FloatMul(x, y) ==
    IF x.tag # "number" \/ y.tag # "number" THEN NaN
    ELSE Number(x.num * y.num, x.den * y.den)

FloatDiv(x, y) ==
    IF x.tag # "number" \/ y.tag # "number" THEN NaN
    ELSE IF y.num = 0 THEN (IF x.num = 0 THEN NaN ELSE Inf)
    ELSE Number(x.num * y.den, x.den * y.num)

\* Series.fillna(value)
FillNa(x, value) == IF x.tag = "nan" THEN value ELSE x

\* the quotient without fillna(0)
F1Score_NoFillNa(precision, recall) ==
    FloatDiv(FloatMul(FloatMul(Number(2, 1), precision), recall),
             FloatAdd(precision, recall))

\* ((2 * precision * recall) / (precision + recall)).fillna(0)
F1Score(precision, recall) ==
    FillNa(FloatDiv(FloatMul(FloatMul(Number(2, 1), precision), recall),
                    FloatAdd(precision, recall)),
           Number(0, 1))

\* the (train_environment, architecture) pairs of the enumerated tables
Experiments ==
    {[env |-> Cloud, arch |-> Vgg], [env |-> Local, arch |-> Vgg]}

Key(env, arch, run) == [train_environment |-> env, architecture |-> arch, run |-> run]

RowKey(r) == Key(r.train_environment, r.architecture, r.run)

KeyBefore(a, b) ==
    IF a.train_environment # b.train_environment
    THEN StrLess(a.train_environment, b.train_environment)
    ELSE IF a.architecture # b.architecture
    THEN StrLess(a.architecture, b.architecture)
    ELSE a.run < b.run

RECURSIVE SortedKeys(_)
SortedKeys(keys) ==
    IF keys = {} THEN <<>>
    ELSE LET first == CHOOSE k \in keys : \A other \in keys \ {k} : KeyBefore(k, other)
         IN  <<first>> \o SortedKeys(keys \ {first})

\* np.timedelta64(1, "h")
TicksPerHour == 3600 * TicksPerSecond

RECURSIVE SeqMax(_)
SeqMax(series) ==
    IF Len(series) = 1 THEN series[1]
    ELSE LET m == SeqMax(Tail(series)) IN IF series[1] > m THEN series[1] ELSE m

RECURSIVE SeqMin(_)
SeqMin(series) ==
    IF Len(series) = 1 THEN series[1]
    ELSE LET m == SeqMin(Tail(series)) IN IF series[1] < m THEN series[1] ELSE m

\* (series.iloc[-1] - series.iloc[0]) / np.timedelta64(1, "h")
get_duration(series) == [num |-> series[Len(series)] - series[1], den |-> TicksPerHour]

\* the timestamp column of one group, its rows in the order of the table
GroupSeries(t, key) ==
    LET rows == SelectSeq(t, LAMBDA r : RowKey(r) = key)
    IN  [k \in 1..Len(rows) |-> rows[k].timestamp]

\* df.groupby(grouping_features).agg(hours_training=("timestamp", get_duration), ...):
\* one row per key, the keys ascending
AggregateMetrics(t) ==
    LET keys == SortedKeys({RowKey(t[k]) : k \in 1..Len(t)})
    IN  [k \in 1..Len(keys) |->
            [key |-> keys[k], hours_training |-> get_duration(GroupSeries(t, keys[k]))]]

\* df[["train_environment", "architecture"]].drop_duplicates().values: the
\* pairs in the order of their first row
RECURSIVE DropDuplicates(_)
DropDuplicates(t) ==
    IF t = <<>> THEN <<>>
    ELSE LET before == DropDuplicates(DropLast(t, 1))
             r == t[Len(t)]
             e == [env |-> r.train_environment, arch |-> r.architecture]
         IN  IF \E k \in 1..Len(before) : before[k] = e THEN before
             ELSE Append(before, e)

\* lines 195-259 for one experiment: the tracked runs in start-time order,
\* indexed from 0, each with its f1-score
RelevantMetrics(e, runs) ==
    [k \in 1..Len(runs) |->
        [key |-> Key(e.env, e.arch, k - 1),
         precision |-> runs[k].precision,
         recall |-> runs[k].recall,
         f1_score |-> F1Score(runs[k].precision, runs[k].recall)]]

\* pd.concat(mlflow_experiments).set_index(grouping_features)
GetMlflowMetrics(t) ==
    LET es == DropDuplicates(t)
    IN  Concat([k \in 1..Len(es) |-> RelevantMetrics(es[k], tracked[es[k]])])

LocalLabel ==
    <<"L", "o", "c", "a", "l", " ", "N", "o", "r", "m", "a", "l", " ",
      "U", "s", "e", "r">>
CloudLabel == <<"C", "l", "o", "u", "d">>

\* analysis_df.replace({"local": ..., "local-v2": ..., "cloud": ...})
Replace(env) ==
    IF env = Local THEN LocalLabel ELSE IF env = Cloud THEN CloudLabel ELSE env

\* an index match on the first two levels only
SameKey_IgnoringRun(a, b) ==
    a.train_environment = b.train_environment /\ a.architecture = b.architecture

\* the index match of DataFrame.join: all three levels equal
SameKey(a, b) == a = b

\* the rows of `right` that share the key of row l, joined to it
Matches(l, right) ==
    LET hits == SelectSeq(right, LAMBDA r : SameKey(l.key, r.key))
    IN  [k \in 1..Len(hits) |->
            [key |-> l.key,
             hours_training |-> l.hours_training,
             precision |-> hits[k].precision,
             recall |-> hits[k].recall,
             f1_score |-> hits[k].f1_score]]

\* df_grouped.join(mlflow_df, how="inner")
InnerJoin(left, right) ==
    Concat([k \in 1..Len(left) |-> Matches(left[k], right)])

\* reset_index, rename and replace of lines 169-178
Relabel(frame) ==
    [k \in 1..Len(frame) |->
        [training_environment |-> Replace(frame[k].key.train_environment),
         architecture |-> frame[k].key.architecture,
         run |-> frame[k].key.run,
         hours_training |-> frame[k].hours_training,
         precision |-> frame[k].precision,
         recall |-> frame[k].recall,
         f1_score |-> frame[k].f1_score]]

TableRows ==
    {[train_environment |-> e.env, architecture |-> e.arch, run |-> r, timestamp |-> t] :
        e \in Experiments, r \in 0..MaxRun, t \in 0..MaxTime}

Tables == UNION {[1..n -> TableRows] : n \in 0..MaxTableRows}

MetricValues == {Number(a, PrecisionSteps) : a \in 0..PrecisionSteps} \cup {NaN}

TrackedRun(p, r) == [precision |-> p, recall |-> r]

TrackedRuns == UNION {[1..n -> {TrackedRun(p, r) : p, r \in MetricValues}] : n \in 0..MaxTracked}

\* runs that all scored precision 1 and recall 1/PrecisionSteps
PlainRuns ==
    {[k \in 1..n |-> TrackedRun(Number(PrecisionSteps, PrecisionSteps),
                                Number(1, PrecisionSteps))] : n \in 0..MaxTracked}

InitAnalysis ==
    /\ pc = "aggregate"
    /\ table \in Tables
    /\ tracked \in [Experiments -> PlainRuns]
    /\ df_grouped = <<>> /\ mlflow_df = <<>> /\ analysis_df = <<>>
    /\ error = "none"
    /\ ParserIdle /\ ReaderIdle /\ AlignIdle /\ CollectIdle

\* a table of one row, the tracked runs of its experiment with any metrics
InitResolver ==
    /\ pc = "aggregate"
    /\ \E e \in Experiments, runs \in TrackedRuns :
          /\ table = <<[train_environment |-> e.env, architecture |-> e.arch,
                        run |-> 0, timestamp |-> 0]>>
          /\ tracked = [x \in Experiments |-> IF x = e THEN runs ELSE <<>>]
    /\ df_grouped = <<>> /\ mlflow_df = <<>> /\ analysis_df = <<>>
    /\ error = "none"
    /\ ParserIdle /\ ReaderIdle /\ AlignIdle /\ CollectIdle

\* line 166
Aggregate ==
    /\ pc = "aggregate"
    /\ df_grouped' = AggregateMetrics(table)
    /\ pc' = "resolve"
    /\ UNCHANGED <<table, tracked, mlflow_df, analysis_df, error,
                   parserVars, readVars, mergeVars, collectVars>>

\* an experiment without tracked runs has none of the selected columns
\* (KeyError); a table without rows leaves nothing to concatenate (ValueError)
ResolveFails ==
    \/ table = <<>>
    \/ \E k \in 1..Len(table) :
          tracked[[env |-> table[k].train_environment,
                   arch |-> table[k].architecture]] = <<>>

\* line 167, every experiment resolved
Resolve ==
    /\ pc = "resolve"
    /\ ~ResolveFails
    /\ mlflow_df' = GetMlflowMetrics(table)
    /\ pc' = "join"
    /\ UNCHANGED <<table, tracked, df_grouped, analysis_df, error,
                   parserVars, readVars, mergeVars, collectVars>>

\* line 167, raising
ResolveRaises ==
    /\ pc = "resolve"
    /\ ResolveFails
    /\ error' = IF table = <<>> THEN "ValueError" ELSE "KeyError"
    /\ pc' = "raised"
    /\ UNCHANGED <<table, tracked, df_grouped, mlflow_df, analysis_df,
                   parserVars, readVars, mergeVars, collectVars>>

\* lines 168-184
Join ==
    /\ pc = "join"
    /\ analysis_df' = Relabel(InnerJoin(df_grouped, mlflow_df))
    /\ pc' = "joined"
    /\ UNCHANGED <<table, tracked, df_grouped, mlflow_df, error,
                   parserVars, readVars, mergeVars, collectVars>>

NextAnalysis == Aggregate \/ Resolve \/ ResolveRaises \/ Join

SpecAnalysis == InitAnalysis /\ [][NextAnalysis]_vars

SpecResolver == InitResolver /\ [][NextAnalysis]_vars

KeysOf(frame) == {frame[k].key : k \in 1..Len(frame)}

UniqueKeys(frame) ==
    \A i, j \in 1..Len(frame) : frame[i].key = frame[j].key => i = j

OutputKey(r) == Key(r.training_environment, r.architecture, r.run)

LabelledKey(k) == Key(Replace(k.train_environment), k.architecture, k.run)

CountIn(frame, e) ==
    Cardinality({k \in 1..Len(frame) :
        frame[k].key.train_environment = e.env /\ frame[k].key.architecture = e.arch})

OutputCount(e) ==
    Cardinality({k \in 1..Len(analysis_df) :
        /\ analysis_df[k].training_environment = Replace(e.env)
        /\ analysis_df[k].architecture = e.arch})

Smaller(a, b) == IF a <= b THEN a ELSE b

\* C7: the join key (train_environment, architecture, run) is unique in the
\* Run Summary and in the Experiment Outcome table; the output holds exactly
\* one row for every key present in both and none for a key present in only
\* one; so for every group the output has at most min(Run Summary rows,
\* Experiment Outcome rows) rows.
C7_InnerJoinOnFullKey ==
    pc = "joined" =>
        /\ UniqueKeys(df_grouped)
        /\ UniqueKeys(mlflow_df)
        /\ {OutputKey(analysis_df[k]) : k \in 1..Len(analysis_df)}
              = {LabelledKey(k) : k \in KeysOf(df_grouped) \cap KeysOf(mlflow_df)}
        /\ \A e \in Experiments :
              OutputCount(e) <= Smaller(CountIn(df_grouped, e), CountIn(mlflow_df, e))

\* a run summary without tracked run, a tracked run without summary, and one
\* key on both sides
C7_Witness ==
    /\ pc = "joined"
    /\ Len(analysis_df) = 1
    /\ KeysOf(df_grouped) \ KeysOf(mlflow_df) # {}
    /\ KeysOf(mlflow_df) \ KeysOf(df_grouped) # {}

IsZero(x) == x.tag = "number" /\ x.num = 0

\* x = 2 * p * r / (p + r) for numbers p, r with p + r # 0
IsHarmonicMean(x, p, r) ==
    /\ x.tag = "number"
    /\ x.num * (p.num * r.den + r.num * p.den) = 2 * p.num * r.num * x.den

SumIsZero(p, r) == p.tag = "number" /\ r.tag = "number" /\ p.num = 0 /\ r.num = 0

\* C8 as stated: the f1-score of every tracked run is 0 exactly when
\* precision + recall = 0, and otherwise 2 * precision * recall /
\* (precision + recall).
C8_F1ZeroIffSumZero ==
    pc = "join" =>
        \A k \in 1..Len(mlflow_df) :
            LET m == mlflow_df[k]
            IN  /\ IsZero(m.f1_score) <=> SumIsZero(m.precision, m.recall)
                /\ ~SumIsZero(m.precision, m.recall)
                      => IsHarmonicMean(m.f1_score, m.precision, m.recall)

\* C8 as amended: the f1-score is 0 when precision + recall = 0 or when
\* either of them is missing, and otherwise 2 * precision * recall /
\* (precision + recall), which is 0 as well when just one of the two is 0.
C8_F1ZeroWhenSumZeroElseHarmonicMean ==
    pc = "join" =>
        \A k \in 1..Len(mlflow_df) :
            LET m == mlflow_df[k]
            IN  IF m.precision.tag # "number" \/ m.recall.tag # "number"
                   \/ SumIsZero(m.precision, m.recall)
                THEN IsZero(m.f1_score)
                ELSE /\ IsHarmonicMean(m.f1_score, m.precision, m.recall)
                     /\ IsZero(m.f1_score) <=> (m.precision.num = 0 \/ m.recall.num = 0)

\* one run with precision = recall = 0 and f1 0, one with precision = recall
\* = 1/2 and f1 1/2
C8_Witness ==
    /\ pc = "join"
    /\ Len(mlflow_df) = 2
    /\ SumIsZero(mlflow_df[1].precision, mlflow_df[1].recall)
    /\ IsZero(mlflow_df[1].f1_score)
    /\ mlflow_df[2].precision = Number(1, 2) /\ mlflow_df[2].recall = Number(1, 2)
    /\ mlflow_df[2].f1_score.num * 2 = mlflow_df[2].f1_score.den

\* C10: whatever the order of the rows of the table, the training duration of
\* every group is its largest minus its smallest timestamp, in hours, and so
\* never negative.
C10_DurationIsSpan ==
    pc \in {"resolve", "join", "joined"} =>
        \A k \in 1..Len(df_grouped) :
            LET series == GroupSeries(table, df_grouped[k].key)
            IN  /\ df_grouped[k].hours_training.num = SeqMax(series) - SeqMin(series)
                /\ df_grouped[k].hours_training.den = 3600 * TicksPerSecond
                /\ df_grouped[k].hours_training.num >= 0

====
